---- MODULE Spec2Model ----
(***************************************************************************)
(* Model of src/Main.py: FinancialDataAnalyzer.run() and the four stages   *)
(* it drives (authenticate, fetch_data, process_data, visualize_trends).   *)
(*                                                                         *)
(* Encodings                                                               *)
(*  - Python None / a value: a record with an is_none flag.                *)
(*  - A JSON object: a record with the set of its keys ("keys") next to    *)
(*    the values, so that a missing key (KeyError) is expressible.         *)
(*  - A pandas Timestamp: [nat |-> FALSE, ord |-> yyyymmdd]; NaT is        *)
(*    [nat |-> TRUE, ord |-> 0].                                           *)
(*  - amount: an integer (hundredths of a percent); a mean is the exact    *)
(*    reduced fraction [nan, num, den]; NaN is [nan |-> TRUE, ...].        *)
(*    Floating-point rounding is not modelled.                             *)
(*  - Input domain: every data row has the same length, column names are   *)
(*    distinct, amount is numeric and never null.                          *)
(***************************************************************************)
EXTENDS Integers, Sequences, FiniteSets, TLC

VARIABLES
    pc,              \* position of run(): the stage about to be called, or how run() ended
    api_key,         \* self.api_key
    username,        \* self.username
    password,        \* self.password
    raw_data,        \* self.raw_data
    processed_data,  \* self.processed_data
    df,              \* process_data's local df just before the filter (line 152)
    time_trend,      \* visualize_trends' local time_trend
    smoothed,        \* visualize_trends' local smoothed
    plotted,         \* the series handed to ax.plot, in call order
    shown,           \* plt.show() was called
    requests_sent,   \* the parameter dicts of the requests.get calls made, in order
    response,        \* what the last requests.get produced
    calls            \* the stages run() has called so far, each with its outcome

vars == <<pc, api_key, username, password, raw_data, processed_data, df,
          time_trend, smoothed, plotted, shown, requests_sent, response, calls>>

-----------------------------------------------------------------------------
(* Bounds *)

MaxRows == 3
MaxRowsBadSchema == 1

-----------------------------------------------------------------------------
(* Python values *)

None == [is_none |-> TRUE, rows |-> <<>>]
Table(rows) == [is_none |-> FALSE, rows |-> rows]

NoJson == [is_none |-> TRUE, keys |-> {}, datatable |-> [keys |-> {}, columns |-> <<>>, data |-> <<>>]]

NaT == [nat |-> TRUE, ord |-> 0]
Timestamp(n) == [nat |-> FALSE, ord |-> n]

NaN == [nan |-> TRUE, num |-> 0, den |-> 1]

Abs(n) == IF n < 0 THEN -n ELSE n

RECURSIVE GCD(_, _)
GCD(a, b) == IF b = 0 THEN a ELSE GCD(b, a % b)

\* the number num/den
Frac(num, den) ==
    LET g == GCD(Abs(num), den)
    IN  [nan |-> FALSE, num |-> num \div g, den |-> den \div g]

Range(s) == {s[i] : i \in DOMAIN s}

SeqsUpTo(S, n) == UNION {[1..k -> S] : k \in 0..n}

-----------------------------------------------------------------------------
(* _get_country_mapping *)

country_mapping ==
    [AUS |-> "Australia", BEL |-> "Belgium", BHS |-> "Bahamas", BMU |-> "Bermuda",
     BRA |-> "Brazil", CAN |-> "Canada", CHE |-> "Switzerland", CHL |-> "Chile",
     CYM |-> "Cayman Islands", DEU |-> "Germany", DNK |-> "Denmark", ESP |-> "Spain",
     FIN |-> "Finland", FRA |-> "France", GBR |-> "United Kingdom", HKG |-> "Hong Kong",
     IDN |-> "Indonesia", IND |-> "India", IRL |-> "Ireland", ISR |-> "Israel",
     ITA |-> "Italy", JPN |-> "Japan", KOR |-> "South Korea", LBR |-> "Liberia",
     PAN |-> "Panama", USA |-> "United States", VGB |-> "British Virgin Islands"]

\* Faulty variant: Series.map(country_mapping) instead of replace: an unmapped code is lost
ReplaceCountryByMap(code) ==
    IF code \in DOMAIN country_mapping THEN country_mapping[code] ELSE ""

\* Series.replace(country_mapping) on one value: whole-value, case-sensitive match
ReplaceCountry(code) ==
    IF code \in DOMAIN country_mapping THEN country_mapping[code] ELSE code

-----------------------------------------------------------------------------
(* Init: the analyzer after __init__, run() about to call authenticate *)

Init ==
    /\ pc = "authenticate"
    /\ api_key \in {"", "KEY"}
    /\ username = "analyst"
    /\ password = "s3cret"
    /\ raw_data = NoJson
    /\ processed_data = None
    /\ df = None
    /\ time_trend = None
    /\ smoothed = None
    /\ plotted = <<>>
    /\ shown = FALSE
    /\ requests_sent = <<>>
    /\ response = [kind |-> "none", status |-> 0, json |-> FALSE, path |-> "none"]
    /\ calls = <<>>

-----------------------------------------------------------------------------
(* authenticate, and run()'s branch on its result *)

EnteredUsernames == {"analyst", "Analyst", ""}
EnteredPasswords == {"s3cret", "S3CRET", ""}

AuthResult(entered_username, entered_password) ==
    IF entered_username # username THEN FALSE
    ELSE IF entered_password # password THEN FALSE
    ELSE TRUE

\* Faulty variant: run() goes on to fetch_data whatever authenticate returned
AuthenticateUngated ==
    /\ pc = "authenticate"
    /\ \E entered_username \in EnteredUsernames, entered_password \in EnteredPasswords :
         LET ok == AuthResult(entered_username, entered_password)
         IN  /\ calls' = Append(calls, [stage |-> "authenticate",
                                        result |-> IF ok THEN "True" ELSE "False"])
             /\ pc' = "fetch_data"
    /\ UNCHANGED <<api_key, username, password, raw_data, processed_data, df,
                   time_trend, smoothed, plotted, shown, requests_sent, response>>

Authenticate ==
    /\ pc = "authenticate"
    /\ \E entered_username \in EnteredUsernames, entered_password \in EnteredPasswords :
         LET ok == AuthResult(entered_username, entered_password)
         IN  /\ calls' = Append(calls, [stage |-> "authenticate",
                                        result |-> IF ok THEN "True" ELSE "False"])
             /\ pc' = IF ok THEN "fetch_data" ELSE "exit_auth_failed"
    /\ UNCHANGED <<api_key, username, password, raw_data, processed_data, df,
                   time_trend, smoothed, plotted, shown, requests_sent, response>>

-----------------------------------------------------------------------------
(* The HTTP responses the environment can give to the one GET *)

necessary_columns ==
    <<"reportid", "reportdate", "reporttype", "longname", "country",
      "region", "indicator", "statement", "amount">>

\* a response that declares more columns than the necessary ones, in another order
WideColumns ==
    <<"compnumber", "reportid", "mapcode", "amount", "reportdate", "reporttype",
      "currency", "longname", "country", "region", "indicator", "statement">>

\* a column name that differs from the necessary one by case only
Misnamed(c) ==
    CASE c = "reportid"   -> "ReportId"
      [] c = "reportdate" -> "ReportDate"
      [] c = "reporttype" -> "ReportType"
      [] c = "longname"   -> "LongName"
      [] c = "country"    -> "Country"
      [] c = "region"     -> "Region"
      [] c = "indicator"  -> "Indicator"
      [] c = "statement"  -> "Statement"
      [] c = "amount"     -> "Amount"

\* the necessary columns with the k-th one absent (declared under another name)
Misdeclared(k) == [necessary_columns EXCEPT ![k] = Misnamed(necessary_columns[k])]

RawRow(id, date, name, country, indicator, amount) ==
    [compnumber |-> "2438", reportid |-> id, mapcode |-> "-1802", amount |-> amount,
     reportdate |-> date, reporttype |-> "Q1", currency |-> "USD", longname |-> name,
     country |-> country, region |-> "North America", indicator |-> indicator,
     statement |-> "Derived"]

RowPool ==
    { RawRow("R1", "2020-04-15", "Acme Corp",   "USA", "EBITDA Margin", 1250),
      RawRow("R2", "2020-01-15", "Acme Corp",   "XKX", "EBITDA Margin", 2000),
      RawRow("R3", "2020-07-15", "Immutep LTD", "DEU", "EBITDA Margin", -450),
      RawRow("R4", "2020-01-15", "Beta Inc",    "usa", "EBITDA Margin", 2500),
      RawRow("R5", "not-a-date", "Acme Corp",   "USA", "EBITDA Margin", 3000),
      RawRow("R6", "2020-04-15", "Immutep Ltd", "AUS", "EBITDA Margin", 90000),
      RawRow("R7", "2020-07-15", "Acme Corp",   "USA", "Revenue",       7000),
      RawRow("R8", "2020-04-15", "Beta Inc",    "GBR", "EBITDA margin", 8000) }

\* a dataset: the columns the response declares, the order its row values are laid
\* out in, its rows, and whether every row lacks its last value
Datasets ==
    {[declared |-> l, layout |-> l, rows |-> rs, short |-> FALSE] :
        l \in {necessary_columns, WideColumns}, rs \in SeqsUpTo(RowPool, MaxRows)}
    \cup
    {[declared |-> Misdeclared(k), layout |-> necessary_columns, rows |-> rs, short |-> FALSE] :
        k \in 1..Len(necessary_columns), rs \in SeqsUpTo(RowPool, MaxRowsBadSchema)}
    \cup
    {[declared |-> necessary_columns, layout |-> necessary_columns, rows |-> rs, short |-> TRUE] :
        rs \in SeqsUpTo(RowPool, MaxRowsBadSchema) \ {<<>>}}

EmptyDataset == [declared |-> <<>>, layout |-> <<>>, rows |-> <<>>, short |-> FALSE]

\* a response body: not JSON at all, or a JSON object with the given keys
Bodies ==
    {[json |-> FALSE, keys |-> {}, dkeys |-> {}, dataset |-> EmptyDataset],
     [json |-> TRUE, keys |-> {}, dkeys |-> {}, dataset |-> EmptyDataset],
     [json |-> TRUE, keys |-> {"quandl_error"}, dkeys |-> {}, dataset |-> EmptyDataset],
     [json |-> TRUE, keys |-> {"datatable", "meta"}, dkeys |-> {"columns"},
      dataset |-> [EmptyDataset EXCEPT !.declared = necessary_columns,
                                       !.layout = necessary_columns]]}
    \cup
    {[json |-> TRUE, keys |-> {"datatable", "meta"}, dkeys |-> dk, dataset |-> d] :
        dk \in {{"columns", "data"}}, d \in Datasets}
    \cup
    {[json |-> TRUE, keys |-> {"datatable", "meta"}, dkeys |-> {"data"}, dataset |-> d] :
        d \in {x \in Datasets : x.declared = necessary_columns /\ ~x.short
                                /\ Len(x.rows) <= MaxRowsBadSchema}}

SmallBodies == {b \in Bodies : Len(b.dataset.rows) <= MaxRowsBadSchema}

Responses ==
    {[kind |-> "network_error", status |-> 0, body |-> b] : b \in {x \in Bodies : ~x.json}}
    \cup
    {[kind |-> "http", status |-> 304, body |-> b] : b \in {x \in Bodies : ~x.json}}
    \cup
    {[kind |-> "http", status |-> s, body |-> b] : s \in {403, 500}, b \in SmallBodies}
    \cup
    {[kind |-> "http", status |-> 200, body |-> b] : b \in Bodies}

\* the row values of a dataset as the JSON carries them: one list per row
RawValues(d) ==
    [i \in DOMAIN d.rows |->
        [j \in 1..(IF d.short THEN Len(d.layout) - 1 ELSE Len(d.layout)) |->
            d.rows[i][d.layout[j]]]]

\* response.json(): the parsed body
Json(b) ==
    [is_none |-> FALSE, keys |-> b.keys,
     datatable |-> [keys |-> b.dkeys,
                    columns |-> IF "columns" \in b.dkeys THEN b.dataset.declared ELSE <<>>,
                    data |-> IF "data" \in b.dkeys THEN RawValues(b.dataset) ELSE <<>>]]

-----------------------------------------------------------------------------
(* fetch_data, and run()'s branch on its result *)

records_per_page == 10000

\* Response.raise_for_status(): raises HTTPError for 4xx and 5xx only
RaisesForStatus(status) == status >= 400 /\ status < 600

\* How far fetch_data gets on a response.  "request_exception": requests.get or
\* raise_for_status raised.  "json_error": response.json() raised; the error is a
\* RequestException from requests 2.27 on and a plain ValueError before, and the
\* repository pins no version, so both outcomes are possible (json_error_escapes).
\* "key_error": raw_data was assigned and line 87 raised KeyError.
FetchPath(resp) ==
    IF resp.kind = "network_error" THEN "request_exception"
    ELSE IF RaisesForStatus(resp.status) THEN "request_exception"
    ELSE IF ~resp.body.json THEN "json_error"
    ELSE IF "datatable" \notin resp.body.keys \/ "data" \notin resp.body.dkeys
         THEN "key_error"
    ELSE "ok"

\* "True" / "False": the value returned; "raised": an exception left fetch_data
FetchResult(resp, json_error_escapes) ==
    CASE FetchPath(resp) = "ok" -> "True"
      [] FetchPath(resp) = "request_exception" -> "False"
      [] FetchPath(resp) = "json_error" ->
            IF json_error_escapes THEN "raised" ELSE "False"
      [] FetchPath(resp) = "key_error" -> "raised"

\* fetch_data (lines 77-92) with run()'s branch on its result (lines 260-262)
DoFetch ==
    \E resp \in Responses, json_error_escapes \in BOOLEAN :
      LET result == FetchResult(resp, json_error_escapes)
      IN  /\ requests_sent' = Append(requests_sent,
                 [api_key |-> api_key, per_page |-> records_per_page])
          /\ response' = [kind |-> resp.kind, status |-> resp.status,
                          json |-> resp.body.json, path |-> FetchPath(resp)]
          /\ raw_data' = IF FetchPath(resp) \in {"ok", "key_error"}
                         THEN Json(resp.body) ELSE raw_data
          /\ calls' = Append(calls, [stage |-> "fetch_data", result |-> result])
          /\ pc' = CASE result = "True"   -> "process_data"
                     [] result = "False"  -> "exit_fetch_failed"
                     [] result = "raised" -> "crashed"

\* Faulty variant: fetch_data validates the key first and returns False without a request
FetchDataPrevalidated ==
    /\ pc = "fetch_data"
    /\ IF api_key = ""
       THEN /\ calls' = Append(calls, [stage |-> "fetch_data", result |-> "False"])
            /\ pc' = "exit_fetch_failed"
            /\ UNCHANGED <<requests_sent, response, raw_data>>
       ELSE DoFetch
    /\ UNCHANGED <<api_key, username, password, processed_data, df,
                   time_trend, smoothed, plotted, shown>>

FetchData ==
    /\ pc = "fetch_data"
    /\ DoFetch
    /\ UNCHANGED <<api_key, username, password, processed_data, df,
                   time_trend, smoothed, plotted, shown>>

-----------------------------------------------------------------------------
(* process_data, and run()'s branch on its result *)

IndexOf(seq, x) == CHOOSE i \in DOMAIN seq : seq[i] = x

\* pd.DataFrame(data, columns=columns): the row values are bound to the column
\* names by position; a row width other than the number of columns raises
DataFrameRaises(data, columns) ==
    \E i \in DOMAIN data : Len(data[i]) # Len(columns)

DataFrame(data, columns) ==
    [i \in DOMAIN data |-> [c \in Range(columns) |-> data[i][IndexOf(columns, c)]]]

\* pd.to_datetime(..., errors='coerce') on one ISO date string: a string that is
\* no date becomes NaT
ToDatetime(s) ==
    CASE s = "2020-01-15" -> Timestamp(20200115)
      [] s = "2020-04-15" -> Timestamp(20200415)
      [] s = "2020-07-15" -> Timestamp(20200715)
      [] s = "2020-10-15" -> Timestamp(20201015)
      [] OTHER -> NaT

new_columns ==
    <<"report_id", "report_date", "report_type", "company_name", "country",
      "region", "indicator", "statement", "amount">>

\* lines 120-152 on one row of the frame: date coercion, projection on the
\* necessary columns, country remap, positional rename
NormalizeRow(r) ==
    LET dated     == [r EXCEPT !["reportdate"] = ToDatetime(r["reportdate"])]
        projected == [c \in Range(necessary_columns) |-> dated[c]]
        mapped    == [projected EXCEPT !["country"] = ReplaceCountry(projected["country"])]
    IN  [n \in Range(new_columns) |-> mapped[necessary_columns[IndexOf(new_columns, n)]]]

\* Faulty variant: rows whose date did not parse are dropped (dropna)
NormalizeDropsNaT(frame) ==
    LET KeepsDated(r) == ~r["report_date"].nat
    IN  SelectSeq([i \in DOMAIN frame |-> NormalizeRow(frame[i])], KeepsDated)

Normalize(frame) == [i \in DOMAIN frame |-> NormalizeRow(frame[i])]

\* Faulty variant: the indicator is matched without regard to case
KeepsIndicatorAnyCase(r) == r["indicator"] \in {"EBITDA Margin", "EBITDA margin"}

\* df[df['indicator'] == 'EBITDA Margin']
KeepsIndicator(r) == r["indicator"] = "EBITDA Margin"
FilterIndicator(rows) == SelectSeq(rows, KeepsIndicator)

\* filtered_df[filtered_df['company_name'] != 'Immutep Ltd']
KeepsCompany(r) == r["company_name"] # "Immutep Ltd"
FilterCompany(rows) == SelectSeq(rows, KeepsCompany)

\* lines 154-159
Filter(rows) == FilterCompany(FilterIndicator(rows))

\* what stops process_data before line 162, or "ok"
ProcessPath(raw) ==
    IF raw.is_none \/ raw.keys = {} THEN "no_data"
    ELSE IF "datatable" \notin raw.keys \/ "data" \notin raw.datatable.keys
            \/ "columns" \notin raw.datatable.keys THEN "key_error"
    ELSE IF DataFrameRaises(raw.datatable.data, raw.datatable.columns) THEN "value_error"
    ELSE IF \E c \in Range(necessary_columns) : c \notin Range(raw.datatable.columns)
         THEN "key_error"
    ELSE "ok"

\* lines 109-163 with run()'s branch (lines 265-267)
ProcessSucceeds ==
    LET normalized == Normalize(DataFrame(raw_data.datatable.data,
                                          raw_data.datatable.columns))
    IN  /\ df' = Table(normalized)
        /\ processed_data' = Table(Filter(normalized))
        /\ calls' = Append(calls, [stage |-> "process_data", result |-> "table"])
        /\ pc' = "visualize_trends"

\* Faulty variant: the failure path leaves an empty table in processed_data
ProcessDataStoresPartial ==
    /\ pc = "process_data"
    /\ IF ProcessPath(raw_data) = "ok"
       THEN ProcessSucceeds
       ELSE /\ df' = df
            /\ processed_data' = Table(<<>>)
            /\ calls' = Append(calls, [stage |-> "process_data", result |-> "None"])
            /\ pc' = "exit_process_failed"
    /\ UNCHANGED <<api_key, username, password, raw_data, time_trend, smoothed,
                   plotted, shown, requests_sent, response>>

ProcessData ==
    /\ pc = "process_data"
    /\ IF ProcessPath(raw_data) = "ok"
       THEN ProcessSucceeds
       ELSE /\ df' = df
            /\ processed_data' = processed_data
            /\ calls' = Append(calls, [stage |-> "process_data", result |-> "None"])
            /\ pc' = "exit_process_failed"
    /\ UNCHANGED <<api_key, username, password, raw_data, time_trend, smoothed,
                   plotted, shown, requests_sent, response>>

-----------------------------------------------------------------------------
(* visualize_trends, and the end of run() *)

window_size == 3

RECURSIVE SortedSeq(_)
SortedSeq(S) ==
    IF S = {} THEN <<>>
    ELSE LET m == CHOOSE x \in S : \A y \in S : x <= y
         IN  <<m>> \o SortedSeq(S \ {m})

RECURSIVE GroupSum(_, _)
GroupSum(rows, key) ==
    IF rows = <<>> THEN 0
    ELSE (IF Head(rows)["report_date"] = key THEN Head(rows)["amount"] ELSE 0)
         + GroupSum(Tail(rows), key)

RECURSIVE GroupCount(_, _)
GroupCount(rows, key) ==
    IF rows = <<>> THEN 0
    ELSE (IF Head(rows)["report_date"] = key THEN 1 ELSE 0) + GroupCount(Tail(rows), key)

\* Faulty variant: the group's sum instead of its mean
GroupMeanAsSum(rows, key) == Frac(GroupSum(rows, key), 1)

\* the mean of one group
GroupMean(rows, key) == Frac(GroupSum(rows, key), GroupCount(rows, key))

\* the group keys in the order groupby presents them: NaT dropped, ascending
GroupKeys(rows) ==
    SortedSeq({rows[i]["report_date"].ord : i \in {j \in DOMAIN rows : ~rows[j]["report_date"].nat}})

\* processed_data.groupby('report_date')['amount'].mean()
GroupByMean(rows) ==
    LET keys == GroupKeys(rows)
    IN  [i \in DOMAIN keys |->
            [key |-> Timestamp(keys[i]), value |-> GroupMean(rows, Timestamp(keys[i]))]]

AddFrac(a, b) == Frac(a.num * b.den + b.num * a.den, a.den * b.den)

RECURSIVE SumFrac(_, _, _)
SumFrac(series, lo, hi) ==
    IF lo > hi THEN Frac(0, 1)
    ELSE AddFrac(series[lo].value, SumFrac(series, lo + 1, hi))

\* Faulty variant: center=False, the window ends at the label
RollingAtTrailing(series, window, i) ==
    LET hi == i
        lo == hi - window + 1
    IN  IF lo < 1 \/ hi > Len(series) THEN NaN
        ELSE IF \E j \in lo..hi : series[j].value.nan THEN NaN
        ELSE LET total == SumFrac(series, lo, hi)
             IN  Frac(total.num, total.den * window)

\* one value of rolling(window, center=True).mean(): the window ends offset places
\* after the label; fewer than window values, or a NaN among them, give NaN
RollingAt(series, window, i) ==
    LET offset == (window - 1) \div 2
        hi == i + offset
        lo == hi - window + 1
    IN  IF lo < 1 \/ hi > Len(series) THEN NaN
        ELSE IF \E j \in lo..hi : series[j].value.nan THEN NaN
        ELSE LET total == SumFrac(series, lo, hi)
             IN  Frac(total.num, total.den * window)

\* time_trend.rolling(window=window_size, center=True).mean()
Rolling(series, window) ==
    [i \in DOMAIN series |-> [key |-> series[i].key, value |-> RollingAt(series, window, i)]]

\* lines 184-209: the two series are computed, plotted and shown
Draw ==
    LET trend  == GroupByMean(processed_data.rows)
        smooth == Rolling(trend, window_size)
    IN  /\ time_trend' = Table(trend)
        /\ smoothed' = Table(smooth)
        /\ plotted' = plotted \o <<trend, smooth>>
        /\ shown' = TRUE

\* Faulty variant: only None is guarded against, an empty table is drawn
VisualizeTrendsNoEmptyGuard ==
    /\ pc = "visualize_trends"
    /\ IF processed_data.is_none
       THEN UNCHANGED <<time_trend, smoothed, plotted, shown>>
       ELSE Draw
    /\ calls' = Append(calls, [stage |-> "visualize_trends", result |-> "returned"])
    /\ pc' = "complete"
    /\ UNCHANGED <<api_key, username, password, raw_data, processed_data, df,
                   requests_sent, response>>

\* visualize_trends (lines 169-209) and the end of run() (lines 270-274)
VisualizeTrends ==
    /\ pc = "visualize_trends"
    /\ IF processed_data.is_none \/ processed_data.rows = <<>>
       THEN UNCHANGED <<time_trend, smoothed, plotted, shown>>
       ELSE Draw
    /\ calls' = Append(calls, [stage |-> "visualize_trends", result |-> "returned"])
    /\ pc' = "complete"
    /\ UNCHANGED <<api_key, username, password, raw_data, processed_data, df,
                   requests_sent, response>>

-----------------------------------------------------------------------------
(* run() *)

Next == Authenticate \/ FetchData \/ ProcessData \/ VisualizeTrends

Spec == Init /\ [][Next]_vars

-----------------------------------------------------------------------------
(* visualize_trends on any filtered table: run() about to call it *)

MaxTrendRows == 4

\* rows as process_data leaves them in processed_data
TrendRowPool ==
    { NormalizeRow(RawRow("T1", "2020-01-15", "Acme Corp", "USA", "EBITDA Margin", 2000)),
      NormalizeRow(RawRow("T2", "2020-01-15", "Beta Inc",  "CAN", "EBITDA Margin", 2500)),
      NormalizeRow(RawRow("T3", "2020-04-15", "Acme Corp", "USA", "EBITDA Margin", 1250)),
      NormalizeRow(RawRow("T4", "2020-07-15", "Beta Inc",  "CAN", "EBITDA Margin", -450)),
      NormalizeRow(RawRow("T5", "2020-10-15", "Acme Corp", "USA", "EBITDA Margin", 700)),
      NormalizeRow(RawRow("T6", "not-a-date", "Acme Corp", "USA", "EBITDA Margin", 3000)) }

InitTrend ==
    /\ pc = "visualize_trends"
    /\ api_key = "KEY"
    /\ username = "analyst"
    /\ password = "s3cret"
    /\ raw_data = NoJson
    /\ \E rows \in SeqsUpTo(TrendRowPool, MaxTrendRows) :
         /\ processed_data = Table(rows)
         /\ df = Table(rows)
    /\ time_trend = None
    /\ smoothed = None
    /\ plotted = <<>>
    /\ shown = FALSE
    /\ requests_sent = <<[api_key |-> "KEY", per_page |-> records_per_page]>>
    /\ response = [kind |-> "http", status |-> 200, json |-> TRUE, path |-> "ok"]
    /\ calls = <<[stage |-> "authenticate", result |-> "True"],
                 [stage |-> "fetch_data", result |-> "True"],
                 [stage |-> "process_data", result |-> "table"]>>

NextTrend == VisualizeTrends

SpecTrend == InitTrend /\ [][NextTrend]_vars

-----------------------------------------------------------------------------
(* Vocabulary of the properties *)

StageOrder == <<"authenticate", "fetch_data", "process_data", "visualize_trends">>

\* the result with which a stage lets run() go on to the next one
Success == [authenticate |-> "True", fetch_data |-> "True", process_data |-> "table",
            visualize_trends |-> "returned"]

Called(stage) == \E i \in DOMAIN calls : calls[i].stage = stage

ResultOf(stage) == calls[CHOOSE i \in DOMAIN calls : calls[i].stage = stage].result

ChartAttempted == shown \/ plotted # <<>> \/ ~time_trend.is_none \/ ~smoothed.is_none

\* the value row i of the fetched dataset holds under the declared column c
RawCell(i, c) == raw_data.datatable.data[i][IndexOf(raw_data.datatable.columns, c)]

DeclaresNecessary(raw) ==
    \A c \in Range(necessary_columns) : c \in Range(raw.datatable.columns)

\* every data row has one value per declared column
RowsAligned(raw) ==
    \A i \in DOMAIN raw.datatable.data :
        Len(raw.datatable.data[i]) = Len(raw.datatable.columns)

\* the indices of the rows that satisfy both filter predicates, ascending
KeptIndices(rows) ==
    SortedSeq({i \in DOMAIN rows : rows[i]["indicator"] = "EBITDA Margin"
                                   /\ rows[i]["company_name"] # "Immutep Ltd"})

RECURSIVE SumAmounts(_, _)
SumAmounts(rows, I) ==
    IF I = {} THEN 0
    ELSE LET i == CHOOSE x \in I : TRUE
         IN  rows[i]["amount"] + SumAmounts(rows, I \ {i})

RowsOn(rows, date) == {i \in DOMAIN rows : rows[i]["report_date"] = date}

-----------------------------------------------------------------------------
(* C1: in every execution of run() the stages are called in the order        *)
(* authenticate, fetch_data, process_data, visualize_trends, each only after *)
(* the one before it succeeded (True, True, a non-None table); a stage that  *)
(* fails is the last one called, and no chart is attempted without a table.  *)

C1_StagesGated ==
    /\ Len(calls) <= Len(StageOrder)
    /\ \A i \in DOMAIN calls : calls[i].stage = StageOrder[i]
    /\ \A i \in DOMAIN calls :
          i > 1 => calls[i - 1].result = Success[StageOrder[i - 1]]
    /\ \A i \in DOMAIN calls :
          calls[i].result # Success[calls[i].stage] => i = Len(calls)
    /\ ChartAttempted => (Called("process_data") /\ ResultOf("process_data") = "table")
    /\ requests_sent # <<>> => (Called("authenticate") /\ ResultOf("authenticate") = "True")
    /\ ~df.is_none => (Called("fetch_data") /\ ResultOf("fetch_data") = "True")

C1_Witness ==
    /\ pc = "complete"
    /\ Len(calls) = 4
    /\ shown

-----------------------------------------------------------------------------
(* C2: the table process_data stores is exactly the rows of the normalized   *)
(* table whose indicator is "EBITDA Margin" and whose company_name is not    *)
(* "Immutep Ltd", in input order; filtering by company first and indicator   *)
(* second gives the same table.                                              *)

-----------------------------------------------------------------------------
(* C3: every fetch_data call makes exactly one GET, and on a network error,  *)
(* a non-2xx status or a body that is not a well-formed datatable JSON it    *)
(* returns False (it neither succeeds nor lets an exception escape).         *)

BadResponse ==
    \/ response.kind = "network_error"
    \/ response.status < 200 \/ response.status > 299
    \/ ~response.json
    \/ "datatable" \notin raw_data.keys
    \/ "data" \notin raw_data.datatable.keys
    \/ "columns" \notin raw_data.datatable.keys

C3_FetchFailsSafely ==
    Called("fetch_data") =>
        /\ Len(requests_sent) = 1
        /\ BadResponse => ResultOf("fetch_data") = "False"

-----------------------------------------------------------------------------
(* C4 as claimed: with an empty api_key fetch_data signals failure without   *)
(* issuing the network call.                                                 *)

C4_NoCallOnEmptyKey ==
    (api_key = "" /\ Called("fetch_data")) =>
        /\ ResultOf("fetch_data") = "False"
        /\ requests_sent = <<>>

(* C4 amended: with an empty api_key fetch_data still issues exactly one GET *)
(* carrying the empty key; it returns False only when that request raised    *)
(* (network error, 4xx/5xx status, undecodable body), never before the call. *)

C4_EmptyKeyStillSent ==
    (api_key = "" /\ Called("fetch_data")) =>
        /\ Len(requests_sent) = 1
        /\ requests_sent[1].api_key = ""
        /\ ResultOf("fetch_data") = "False" =>
              response.path \in {"request_exception", "json_error"}

C4_Witness ==
    /\ api_key = ""
    /\ Called("fetch_data")
    /\ ResultOf("fetch_data") = "False"
    /\ response.status = 403
    /\ Len(requests_sent) = 1

-----------------------------------------------------------------------------
(* C5: when a necessary column is absent from the declared columns,          *)
(* process_data returns None and changes neither processed_data nor anything *)
(* a chart needs, and run() ends there: visualize_trends is never called.    *)

C5_MissingColumnAborts ==
    /\ [][(pc = "process_data" /\ ~DeclaresNecessary(raw_data)) =>
            /\ calls' = Append(calls, [stage |-> "process_data", result |-> "None"])
            /\ processed_data' = processed_data
            /\ pc' = "exit_process_failed"]_vars
    /\ [](pc = "exit_process_failed" =>
            /\ ~Called("visualize_trends")
            /\ ~ChartAttempted
            /\ processed_data.is_none)
    /\ [][pc = "exit_process_failed" => pc' = "exit_process_failed"]_vars

C5_Witness ==
    /\ pc = "exit_process_failed"
    /\ "columns" \in raw_data.datatable.keys
    /\ "Amount" \in Range(raw_data.datatable.columns)
    /\ raw_data.datatable.data # <<>>

-----------------------------------------------------------------------------
(* C6: when no row survives the filter, process_data returns the empty table *)
(* (not None) and stores it, run() goes on to visualize_trends, and that     *)
(* call returns without computing a series or drawing; the failure exit of   *)
(* process_data is not taken.                                                *)

C6_EmptyIsNotFailure ==
    (~df.is_none /\ KeptIndices(df.rows) = <<>>) =>
        /\ ResultOf("process_data") = "table"
        /\ ~processed_data.is_none
        /\ processed_data.rows = <<>>
        /\ pc \in {"visualize_trends", "complete"}
        /\ pc = "complete" =>
              /\ ResultOf("visualize_trends") = "returned"
              /\ time_trend.is_none
              /\ smoothed.is_none
              /\ plotted = <<>>
              /\ ~shown

C6_Witness ==
    /\ pc = "complete"
    /\ ~df.is_none
    /\ Len(df.rows) = 2
    /\ processed_data.rows = <<>>
    /\ ~shown

-----------------------------------------------------------------------------
(* C7: the country remap is lookup-or-identity over the 27-entry mapping:    *)
(* each normalized row's country is the mapped name when the fetched code is *)
(* a key of the mapping and the fetched code itself otherwise; the remap of  *)
(* a non-empty code is never empty.                                          *)

ProbeCodes == DOMAIN country_mapping \cup {"XKX", "usa", "Usa", "US", "United States", "ZZZ"}

C7_CountryLookupOrIdentity ==
    /\ Cardinality(DOMAIN country_mapping) = 27
    /\ \A code \in ProbeCodes :
          /\ code \in DOMAIN country_mapping => ReplaceCountry(code) = country_mapping[code]
          /\ code \notin DOMAIN country_mapping => ReplaceCountry(code) = code
          /\ ReplaceCountry(code) # ""
    /\ ~df.is_none =>
          \A i \in DOMAIN df.rows :
             LET code == RawCell(i, "country")
             IN  /\ code \in DOMAIN country_mapping =>
                        df.rows[i]["country"] = country_mapping[code]
                 /\ code \notin DOMAIN country_mapping => df.rows[i]["country"] = code
                 /\ df.rows[i]["country"] # ""

C7_Witness ==
    /\ ~df.is_none
    /\ \E i \in DOMAIN df.rows :
          RawCell(i, "country") = "USA" /\ df.rows[i]["country"] = "United States"
    /\ \E i \in DOMAIN df.rows :
          RawCell(i, "country") = "usa" /\ df.rows[i]["country"] = "usa"

-----------------------------------------------------------------------------
(* C8: for a fetched dataset that declares the necessary columns (rows       *)
(* aligned with the header), process_data does not abort and the normalized  *)
(* table has one row per fetched row, in order, with report_id and amount    *)
(* equal to the fetched reportid and amount; a row whose reportdate is no    *)
(* date is kept, its report_date being NaT.                                  *)

C8_NormalizePreservesRows ==
    (Called("process_data") /\ "columns" \in raw_data.datatable.keys
        /\ DeclaresNecessary(raw_data) /\ RowsAligned(raw_data)) =>
        /\ ResultOf("process_data") = "table"
        /\ ~df.is_none
        /\ Len(df.rows) = Len(raw_data.datatable.data)
        /\ \A i \in DOMAIN df.rows :
              /\ df.rows[i]["report_id"] = RawCell(i, "reportid")
              /\ df.rows[i]["amount"] = RawCell(i, "amount")
              /\ DOMAIN df.rows[i] = Range(new_columns)
              /\ RawCell(i, "reportdate") = "not-a-date" => df.rows[i]["report_date"] = NaT
              /\ RawCell(i, "reportdate") = "2020-04-15" =>
                    df.rows[i]["report_date"] = Timestamp(20200415)

C8_Witness ==
    /\ ~df.is_none
    /\ Len(df.rows) = 3
    /\ RawCell(2, "reportdate") = "not-a-date"
    /\ df.rows[2]["report_date"] = NaT
    /\ df.rows[2]["report_id"] = "R5"
    /\ df.rows[1]["report_id"] = "R7"
    /\ Len(raw_data.datatable.columns) > Len(necessary_columns)

-----------------------------------------------------------------------------
(* C9: every entry of time_trend holds the arithmetic mean of the amounts of *)
(* all rows of processed_data with that report_date, and the keys ascend.    *)

C9_MeanPerDate ==
    ~time_trend.is_none =>
        LET rows == processed_data.rows
            tt   == time_trend.rows
        IN  /\ \A i \in DOMAIN tt :
                  LET group == RowsOn(rows, tt[i].key)
                  IN  /\ group # {}
                      /\ ~tt[i].value.nan
                      /\ tt[i].value.den > 0
                      /\ tt[i].value.num * Cardinality(group)
                            = tt[i].value.den * SumAmounts(rows, group)
            /\ \A i, j \in DOMAIN tt : i < j => tt[i].key.ord < tt[j].key.ord

C9_Witness ==
    /\ ~time_trend.is_none
    /\ Len(time_trend.rows) = 2
    /\ processed_data.rows[1]["report_date"].ord > processed_data.rows[2]["report_date"].ord
    /\ ~processed_data.rows[2]["report_date"].nat
    /\ \E i \in DOMAIN time_trend.rows :
          /\ Cardinality(RowsOn(processed_data.rows, time_trend.rows[i].key)) = 2
          /\ time_trend.rows[i].value.num = 2250

-----------------------------------------------------------------------------
(* C10: with window_size = 3 the smoothed series has the keys of time_trend; *)
(* its first and last values are missing and every other value is the mean   *)
(* of the time_trend value at that position and its two neighbours.          *)

C10_CenteredMovingAverage ==
    ~smoothed.is_none =>
        LET tt == time_trend.rows
            sm == smoothed.rows
            n  == Len(tt)
        IN  /\ Len(sm) = n
            /\ \A i \in DOMAIN sm : sm[i].key = tt[i].key
            /\ \A i \in DOMAIN sm : (i = 1 \/ i = n) => sm[i].value = NaN
            /\ \A i \in DOMAIN sm : (1 < i /\ i < n) =>
                  LET a == tt[i - 1].value
                      b == tt[i].value
                      c == tt[i + 1].value
                  IN  /\ ~sm[i].value.nan
                      /\ sm[i].value.den > 0
                      /\ sm[i].value.num * (3 * a.den * b.den * c.den)
                            = sm[i].value.den * (a.num * b.den * c.den
                                                 + b.num * a.den * c.den
                                                 + c.num * a.den * b.den)

C10_Witness ==
    /\ ~smoothed.is_none
    /\ Len(smoothed.rows) = 4
    /\ smoothed.rows[1].value = NaN
    /\ ~smoothed.rows[2].value.nan
    /\ ~smoothed.rows[3].value.nan
    /\ smoothed.rows[4].value = NaN
====
